---- MODULE Spec2Model ----
(***************************************************************************)
(* Model of string_builder_t (src/string_builder.h): a growable character  *)
(* buffer with a configurable growth factor.                               *)
(*                                                                         *)
(* The heap region owned by the builder is modelled as a function from     *)
(* cell index to byte; `size` is the number of cells malloc/realloc gave   *)
(* the region (capacity + 1 at allocation time).  A store at an index      *)
(* >= size is a heap overflow and a load at an index >= size is a heap     *)
(* over-read; each has two outcomes, chosen nondeterministically: the      *)
(* access behaves as if the cell belonged to the region, or the byte       *)
(* found is indeterminate (Indet).                                         *)
(***************************************************************************)
EXTENDS Integers, Sequences, FiniteSets, TLC

\* ---- bounds of the model ----
MaxCap0 == 2     \* initial capacities 0..MaxCap0
MaxLen  == 3     \* appends are explored while idx + n <= MaxLen
MaxN    == 2     \* longest source sequence handed to a ranged/text write

\* ---- values ----
NUL    == 0                    \* '\0'
Chars  == {1, 2}               \* two distinguishable non-NUL characters
Indet  == -1                   \* an indeterminate byte
MemTop == 2 * MaxLen + MaxCap0 \* highest cell index any region can reach

\* size_t arithmetic is modular.  TLC integers are 32 bits wide, so the
\* modulus used is 2^30; every length of the model is far below it, hence
\* every comparison against a wrapped value has the outcome it has with
\* the 2^32 or 2^64 modulus of a real target.
SizeMod == 1073741824

\* growth factors as exact fractions <<num, den>>: 2.0, 1.5 and 1.1.
\* For every capacity below 40 the double product capacity * 1.1,
\* truncated, equals (capacity * 11) \div 10.
Factors == {<<2, 1>>, <<3, 2>>, <<11, 10>>}

SeqsUpTo(S, n) == UNION {[1..k -> S] : k \in 0..n}
Sources == SeqsUpTo(Chars, MaxN)
\* NUL-terminated texts, one of them with a NUL before its end
Texts   == {Append(s, NUL) : s \in Sources} \cup {<<1, NUL, 2, NUL>>}

VARIABLES
    builder,          \* string_builder_t: buf, idx, capacity, growth_factor
    heap,             \* the region buf points to: size, cells, frees
    pc,               \* "idle", or "ranged" inside the copy loop
    str,              \* write_string_builder_ranged: source cursor
    remaining_write,  \* write_string_builder_ranged: elements still to copy
    iter,             \* parity of the iterations the running loop has made
    copy,             \* result of the last collect_string_builder call
    view,             \* result of the last collect_string_builder_no_copy
    lastOp,           \* name of the operation that ran last
    lastGrow,         \* <<old, new>> capacity of a growth in the last step
    call,             \* builder/heap/source at entry of the running append
    written,          \* values given to write_char since construction
    charsOnly,        \* only write_char calls were made since construction
    oob               \* the last step accessed a cell outside the region

vars == <<builder, heap, pc, str, remaining_write, iter, copy, view, lastOp,
          lastGrow, call, written, charsOnly, oob>>

NoCall == [n |-> 0]

\* values of copy: nothing returned yet (or released), NULL, a string
NoCopy      == [st |-> "none", data |-> <<>>]
NullCopy    == [st |-> "NULL", data |-> <<>>]
CopyOf(seq) == [st |-> "ok", data |-> seq]

\* value of view when no view is held
NoView == <<>>

\* ---- helpers on sizes and cells ----

\* (size_t)(a - b)
SizeSub(a, b) == (a - b + SizeMod) % SizeMod

\* capacity *= growth_factor: the product is formed in double and
\* converted back to size_t, which truncates toward zero.
GrowCapacity(cap, f) == (cap * f[1]) \div f[2]

Ceil(cap, f) == ((cap * f[1]) + f[2] - 1) \div f[2]

InRegion(h, i) == i < h.size

\* buf[i] = v; g tells whether v is found in the cell afterwards when the
\* store falls outside the region.
Store(h, i, v, g) ==
    [h EXCEPT !.cells[i] = IF InRegion(h, i) \/ g THEN v ELSE Indet]

\* the value read from buf[i]; g tells whether an over-read yields the
\* byte last stored there.
Load(h, i, g) == IF InRegion(h, i) \/ g THEN h.cells[i] ELSE Indet

\* malloc(sizeof(char) * n): a fresh region of n indeterminate cells
Malloc(n) == [size |-> n, cells |-> [i \in 0..MemTop |-> Indet], frees |-> 0]

\* realloc(buf, n): the first min(old, n) cells keep their values
Realloc(h, n) ==
    [size  |-> n,
     cells |-> [i \in 0..MemTop |->
                  IF i < h.size /\ i < n THEN h.cells[i] ELSE Indet],
     frees |-> 0]

\* ---- the operations of string_builder.h, as functions of the builder b
\* ---- and its region h; each yields the new builder and region, and
\* ---- oob = TRUE when it touched a cell outside the region.

init_string_builder(capacity, growth_factor) ==
    [b |-> [buf |-> "PTR", idx |-> 0, capacity |-> capacity,
            growth_factor |-> growth_factor],
     h |-> Malloc(capacity + 1),
     oob |-> FALSE]

reallocate_string_builder(b, h) ==
    LET newcap == GrowCapacity(b.capacity, b.growth_factor)
    IN  [b |-> [b EXCEPT !.capacity = newcap],
         h |-> Realloc(h, newcap + 1),
         oob |-> FALSE]

write_char_string_builder(b, h, c, g) ==
    LET r == IF b.idx = b.capacity
             THEN reallocate_string_builder(b, h)
             ELSE [b |-> b, h |-> h, oob |-> FALSE]
    IN  [b |-> [r.b EXCEPT !.idx = @ + 1],
         h |-> Store(r.h, r.b.idx, c, g),
         oob |-> ~InRegion(r.h, r.b.idx)]

\* memcpy(buf + at, src, n); g[i] tells whether the byte stored to cell i
\* is found there afterwards when the cell is outside the region.
Memcpy(h, at, src, n, g) ==
    [h EXCEPT !.cells = [i \in 0..MemTop |->
        IF i >= at /\ i < at + n
        THEN (IF InRegion(h, i) \/ g[i] THEN src[i - at + 1] ELSE Indet)
        ELSE h.cells[i]]]

\* one iteration of the while loop of write_string_builder_ranged, entered
\* with remaining_write = rem > 0 and the source cursor at s.
RangedIteration(b, h, s, rem, g) ==
    LET space_left == SizeSub(b.capacity, b.idx)
        r == IF space_left = 0
             THEN reallocate_string_builder(b, h)
             ELSE [b |-> b, h |-> h, oob |-> FALSE]
    IN  IF space_left >= rem
        THEN [b |-> [r.b EXCEPT !.idx = @ + rem],
              h |-> Memcpy(r.h, r.b.idx, s, rem, g),
              str |-> s, rem |-> rem, brk |-> TRUE,
              grew |-> space_left = 0,
              oob |-> r.b.idx + rem > r.h.size]
        ELSE [b |-> [r.b EXCEPT !.idx = @ + space_left],
              h |-> Memcpy(r.h, r.b.idx, s, space_left, g),
              str |-> SubSeq(s, space_left + 1, Len(s)),
              rem |-> rem - space_left, brk |-> FALSE,
              grew |-> space_left = 0,
              oob |-> r.b.idx + space_left > r.h.size]

\* strlen(text): the number of elements before the first NUL
RECURSIVE strlen(_)
strlen(text) == IF text[1] = NUL THEN 0 ELSE 1 + strlen(Tail(text))

collect_string_builder_no_copy(b, h, g) ==
    [b |-> b, h |-> Store(h, b.idx, NUL, g), oob |-> ~InRegion(h, b.idx)]

\* what the pointer returned by collect_string_builder_no_copy shows:
\* cells 0..idx of the region, as a sequence
ViewOf(b, h) == [k \in 1..(b.idx + 1) |-> h.cells[k - 1]]

\* variant of collect_string_builder that terminates the builder's own
\* buffer before it allocates the copy
collect_string_builder_terminating(b, h, ok, g) ==
    LET t == Store(h, b.idx, NUL, TRUE)
    IN  IF ~ok
        THEN [b |-> b, h |-> t, ret |-> NullCopy, oob |-> ~InRegion(h, b.idx)]
        ELSE [b |-> b, h |-> t,
              ret |-> CopyOf([k \in 1..(b.idx + 1) |->
                         IF k = b.idx + 1 THEN NUL
                         ELSE IF InRegion(h, k - 1) THEN Load(h, k - 1, TRUE)
                         ELSE Load(h, k - 1, g[k - 1])]),
              oob |-> b.idx >= h.size]

\* ok: malloc succeeded.  g[i] tells whether an over-read of cell i yields
\* the byte last stored there.
collect_string_builder(b, h, ok, g) ==
    IF ~ok
    THEN [b |-> b, h |-> h, ret |-> NullCopy, oob |-> FALSE]
    ELSE [b |-> b, h |-> h,
          ret |-> CopyOf([k \in 1..(b.idx + 1) |->
                     IF k = b.idx + 1 THEN NUL
                     ELSE IF InRegion(h, k - 1) THEN Load(h, k - 1, TRUE)
                     ELSE Load(h, k - 1, g[k - 1])]),
          oob |-> b.idx > h.size]

\* variant of destroy_string_builder that leaves buf pointing at the
\* released region
destroy_string_builder_dangling(b, h) ==
    IF b.buf = "NULL"
    THEN [b |-> b, h |-> h]
    ELSE [b |-> b, h |-> [h EXCEPT !.frees = @ + 1]]

destroy_string_builder(b, h) ==
    IF b.buf = "NULL"
    THEN [b |-> b, h |-> h]
    ELSE [b |-> [b EXCEPT !.buf = "NULL"],
          h |-> [h EXCEPT !.frees = @ + 1]]

\* variant of reset_string_builder that releases the region and allocates
\* a fresh one of the same capacity
reset_string_builder_fresh(b, h) ==
    [b |-> [b EXCEPT !.idx = 0], h |-> Malloc(b.capacity + 1)]

reset_string_builder(b, h) ==
    [b |-> [b EXCEPT !.idx = 0], h |-> h]

\* ---- the state machine: one action per call of the interface; the
\* ---- copy loop of write_string_builder_ranged takes one step per
\* ---- iteration.

Live == builder.buf # "NULL" /\ pc = "idle"

\* The caller owns the copy returned by collect_string_builder; it keeps
\* it across the next call on the builder and releases it afterwards.
KeepCopy == IF lastOp = "collect" THEN copy ELSE NoCopy

Init ==
    \E c0 \in 0..MaxCap0, f \in Factors :
        LET r == init_string_builder(c0, f)
        IN  /\ builder = r.b
            /\ heap = r.h
            /\ pc = "idle"
            /\ str = <<>>
            /\ remaining_write = 0
            /\ iter = 0
            /\ copy = NoCopy
            /\ view = NoView
            /\ lastOp = "init"
            /\ lastGrow = <<>>
            /\ call = NoCall
            /\ written = <<>>
            /\ charsOnly = TRUE
            /\ oob = FALSE

\* init_string_builder on a destroyed builder
Construct(c0, f) ==
    /\ builder.buf = "NULL" /\ pc = "idle"
    /\ LET r == init_string_builder(c0, f)
       IN  /\ builder' = r.b
           /\ heap' = r.h
    /\ pc' = "idle" /\ str' = <<>> /\ remaining_write' = 0 /\ iter' = 0
    /\ copy' = KeepCopy /\ view' = NoView
    /\ lastOp' = "init" /\ lastGrow' = <<>> /\ call' = NoCall
    /\ written' = <<>> /\ charsOnly' = TRUE /\ oob' = FALSE

WriteChar(c, g) ==
    /\ Live
    /\ builder.idx < MaxLen
    /\ LET r == write_char_string_builder(builder, heap, c, g)
       IN  /\ builder' = r.b
           /\ heap' = r.h
           /\ oob' = r.oob
           /\ lastGrow' = IF builder.idx = builder.capacity
                          THEN <<builder.capacity, r.b.capacity>> ELSE <<>>
    /\ lastOp' = "write_char"
    /\ written' = IF charsOnly THEN Append(written, c) ELSE <<>>
    /\ view' = NoView /\ copy' = KeepCopy /\ call' = NoCall
    /\ UNCHANGED <<pc, str, remaining_write, iter, charsOnly>>

\* entry of write_string_builder_ranged(builder, src, n): the loop
\* variables are set up; the while condition is tested for the first time.
EnterRanged(src, n, name) ==
    /\ Live
    /\ builder.idx + n <= MaxLen
    /\ str' = IF n > 0 THEN src ELSE <<>>
    /\ remaining_write' = n
    /\ iter' = 0
    /\ pc' = IF n > 0 THEN "ranged" ELSE "idle"
    /\ call' = [b |-> builder, h |-> heap, src |-> src, n |-> n]
    /\ lastOp' = name
    /\ lastGrow' = <<>>
    /\ written' = <<>> /\ charsOnly' = FALSE
    /\ view' = NoView /\ copy' = KeepCopy /\ oob' = FALSE
    /\ UNCHANGED <<builder, heap>>

WriteRanged(src, n) ==
    /\ n <= Len(src) /\ Len(src) <= n + 1
    /\ EnterRanged(src, n, "write_ranged")

\* write_string_builder(builder, text)
WriteString(text) == EnterRanged(text, strlen(text), "write_string")

\* one iteration of the loop body, then the while condition again
RangedStep(g) ==
    /\ pc = "ranged"
    /\ LET r == RangedIteration(builder, heap, str, remaining_write, g)
       IN  /\ builder' = r.b
           /\ heap' = r.h
           /\ LET done == r.brk \/ r.rem = 0
              IN  /\ pc' = IF done THEN "idle" ELSE "ranged"
                  /\ str' = IF done THEN <<>> ELSE r.str
                  /\ remaining_write' = IF done THEN 0 ELSE r.rem
                  /\ iter' = IF done THEN 0 ELSE 1 - iter
           /\ oob' = r.oob
           /\ lastGrow' = IF r.grew
                          THEN <<builder.capacity, r.b.capacity>> ELSE <<>>
    /\ UNCHANGED <<copy, view, lastOp, call, written, charsOnly>>

CollectNoCopy(g) ==
    /\ Live
    /\ LET r == collect_string_builder_no_copy(builder, heap, g)
       IN  /\ builder' = r.b
           /\ heap' = r.h
           /\ view' = ViewOf(r.b, r.h)
           /\ oob' = r.oob
    /\ lastOp' = "collect_no_copy"
    /\ lastGrow' = <<>>
    /\ copy' = KeepCopy /\ call' = NoCall
    /\ UNCHANGED <<pc, str, remaining_write, iter, written, charsOnly>>

Collect(ok, g) ==
    /\ Live
    /\ LET r == collect_string_builder(builder, heap, ok, g)
       IN  /\ builder' = r.b
           /\ heap' = r.h
           /\ copy' = r.ret
           /\ oob' = r.oob
    /\ lastOp' = IF ok THEN "collect" ELSE "collect_failed"
    /\ lastGrow' = <<>>
    /\ written' = <<>> /\ charsOnly' = FALSE
    /\ view' = NoView /\ call' = NoCall
    /\ UNCHANGED <<pc, str, remaining_write, iter>>

Reset ==
    /\ Live
    /\ LET r == reset_string_builder(builder, heap)
       IN  /\ builder' = r.b
           /\ heap' = r.h
    /\ lastOp' = "reset"
    /\ lastGrow' = <<>>
    /\ written' = <<>> /\ charsOnly' = FALSE
    /\ view' = NoView /\ copy' = KeepCopy /\ call' = NoCall /\ oob' = FALSE
    /\ UNCHANGED <<pc, str, remaining_write, iter>>

Destroy ==
    /\ pc = "idle"
    /\ LET r == destroy_string_builder(builder, heap)
       IN  /\ builder' = r.b
           /\ heap' = r.h
    /\ lastOp' = IF builder.buf = "NULL" THEN "destroy_again" ELSE "destroy"
    /\ lastGrow' = <<>>
    /\ written' = <<>> /\ charsOnly' = FALSE
    /\ view' = NoView /\ copy' = KeepCopy /\ call' = NoCall /\ oob' = FALSE
    /\ UNCHANGED <<pc, str, remaining_write, iter>>

\* the outcomes of the accesses to cells lo..hi that fall outside region
\* h, one per cell
Garbage(lo, hi, h) == [{i \in lo..hi : ~InRegion(h, i)} -> BOOLEAN]

\* the builder and region after the next loop iteration (they do not
\* depend on the bytes left outside the region)
AfterIteration ==
    RangedIteration(builder, heap, str, remaining_write,
                    [i \in 0..MemTop |-> TRUE])

RangedLoop ==
    /\ pc = "ranged"
    /\ \E g \in Garbage(builder.idx, AfterIteration.b.idx - 1, AfterIteration.h) :
           RangedStep(g)

\* the capacity write_char_string_builder stores under
CapacityAtStore ==
    IF builder.idx = builder.capacity
    THEN GrowCapacity(builder.capacity, builder.growth_factor)
    ELSE builder.capacity

WriteCharCall ==
    \E c \in Chars :
        \E g \in (IF builder.idx < CapacityAtStore + 1 THEN {TRUE} ELSE BOOLEAN) :
            WriteChar(c, g)

CollectNoCopyCall ==
    \E g \in (IF InRegion(heap, builder.idx) THEN {TRUE} ELSE BOOLEAN) :
        CollectNoCopy(g)

CollectCall ==
    \E ok \in BOOLEAN, g \in Garbage(0, builder.idx - 1, heap) : Collect(ok, g)

Next ==
    \/ \E c0 \in 0..MaxCap0, f \in Factors : Construct(c0, f)
    \/ WriteCharCall
    \/ \E src \in Sources, n \in 0..MaxN : WriteRanged(src, n)
    \/ \E text \in Texts : WriteString(text)
    \/ RangedLoop
    \/ CollectNoCopyCall
    \/ CollectCall
    \/ Reset
    \/ Destroy

Spec == Init /\ [][Next]_vars

\* the loop of write_string_builder_ranged runs on once entered
FairSpec == Spec /\ WF_vars(RangedLoop)

TypeOK ==
    /\ builder.buf \in {"PTR", "NULL"}
    /\ builder.idx \in 0..MaxLen
    /\ builder.capacity \in 0..MemTop
    /\ heap.size = builder.capacity + 1
    /\ pc \in {"idle", "ranged"}

\* ---- properties ----

AppendReturned == pc = "idle" /\ lastOp \in {"write_ranged", "write_string"}

\* the results n sequential write_char_string_builder calls with the
\* values src[1..n] can have, started from builder b and region h
RECURSIVE SeqChars(_, _, _, _)
SeqChars(b, h, src, n) ==
    IF n = 0
    THEN {[b |-> b, h |-> h]}
    ELSE UNION {
           {LET r == write_char_string_builder(o.b, o.h, src[n], g)
            IN  [b |-> r.b, h |-> r.h] : g \in BOOLEAN}
           : o \in SeqChars(b, h, src, n - 1)}

\* the views collect_string_builder_no_copy can return for b and h
CollectViews(b, h) ==
    {LET r == collect_string_builder_no_copy(b, h, g)
     IN  ViewOf(r.b, r.h) : g \in BOOLEAN}

\* C1: after construction and N write_char_string_builder calls,
\* collect_string_builder_no_copy yields the N values in call order at
\* indices 0..N-1, a terminator at index N, and idx = N.
C1_CharsThenCollect ==
    (charsOnly /\ lastOp = "collect_no_copy") =>
        /\ builder.idx = Len(written)
        /\ view = Append(written, NUL)

\* C2: idx <= capacity in every state of a constructed builder.
C2_LengthWithinCapacity ==
    builder.buf # "NULL" => builder.idx <= builder.capacity

\* C3: when write_string_builder_ranged(builder, source, n) returns, the
\* elements written before the call are unchanged, source[0..n-1] follow
\* them in order, and idx has grown by exactly n.
C3_RangedAppendsInOrder ==
    AppendReturned =>
        /\ builder.idx = call.b.idx + call.n
        /\ \A i \in 0..(call.b.idx - 1) : heap.cells[i] = call.h.cells[i]
        /\ \A k \in 1..call.n : heap.cells[call.b.idx + k - 1] = call.src[k]

\* C4: a call of write_string_builder_ranged (or write_string_builder)
\* returns, and collect_string_builder_no_copy then yields a length and
\* an element sequence that n sequential write_char_string_builder calls
\* from the same state followed by collect_string_builder_no_copy yield.
C4_RangedEqualsChars ==
    (pc = "ranged") ~>
        (/\ AppendReturned
         /\ \E o \in SeqChars(call.b, call.h, call.src, call.n) :
               /\ o.b.idx = builder.idx
               /\ CollectViews(builder, heap) \subseteq CollectViews(o.b, o.h))

\* C5: a successful collect_string_builder returns idx elements equal to
\* those of the view of collect_string_builder_no_copy in the same state,
\* followed by one terminator, and the next call on the builder leaves
\* the copy as it is.
C5_CopyEqualsView ==
    [][/\ lastOp' = "collect" =>
            /\ copy'.st = "ok"
            /\ Len(copy'.data) = builder'.idx + 1
            /\ copy'.data[builder'.idx + 1] = NUL
            /\ \A v \in CollectViews(builder', heap') :
                  SubSeq(copy'.data, 1, builder'.idx)
                      = SubSeq(v, 1, builder'.idx)
       /\ (lastOp = "collect" /\ lastOp' # "collect" /\ lastOp' # "collect_failed")
             => copy' = copy]_vars

\* C6: when the allocation inside collect_string_builder fails, the call
\* returns NULL and leaves buf's contents, idx and capacity as they were.
C6_FailedCollectChangesNothing ==
    [][lastOp' = "collect_failed" =>
          /\ copy' = NullCopy
          /\ builder' = builder
          /\ heap' = heap
          /\ pc' = "idle"]_vars

C6_Witness ==
    /\ lastOp = "collect_failed"
    /\ copy = NullCopy
    /\ builder.idx > 0
    /\ heap.cells[builder.idx] # NUL

\* C7: reset_string_builder sets idx to 0 and leaves capacity,
\* growth_factor and the region unchanged; a
\* collect_string_builder_no_copy right after it yields the terminator
\* only.
C7_ResetKeepsRegion ==
    [][/\ lastOp' = "reset" =>
            /\ builder'.idx = 0
            /\ builder'.capacity = builder.capacity
            /\ builder'.growth_factor = builder.growth_factor
            /\ builder'.buf = builder.buf
            /\ heap' = heap
       /\ (lastOp = "reset" /\ lastOp' = "collect_no_copy") =>
            /\ builder'.idx = 0
            /\ view' = <<NUL>>]_vars

C7_Witness ==
    /\ lastOp = "collect_no_copy"
    /\ builder.idx = 0
    /\ view = <<NUL>>
    /\ heap.cells[1] \in Chars

\* C8: destroy_string_builder on a builder whose buf is NULL changes
\* nothing, and no region is released more than once.
C8_DestroyOnce ==
    [][/\ heap'.frees <= 1
       /\ (builder.buf = "NULL" /\ lastOp' \in {"destroy", "destroy_again"})
             => (builder' = builder /\ heap' = heap)]_vars

C8_Witness ==
    /\ lastOp = "destroy_again"
    /\ builder.buf = "NULL"
    /\ heap.frees = 1

\* C9: a growth step sets capacity to ceil(old * growth_factor), the new
\* capacity is greater than the old one, and the first idx elements keep
\* their values.
C9_GrowthCeilAndStrict ==
    [][lastGrow' # <<>> =>
          /\ lastGrow'[1] = builder.capacity
          /\ builder'.capacity = Ceil(builder.capacity, builder.growth_factor)
          /\ builder'.capacity > builder.capacity
          /\ \A i \in 0..(builder.idx - 1) : heap'.cells[i] = heap.cells[i]]_vars

\* C10: every iteration of the copy loop of write_string_builder_ranged
\* finishes the call, or reduces remaining_write, or increases capacity.
C10_LoopProgress ==
    [][pc = "ranged" =>
          \/ pc' = "idle"
          \/ remaining_write' < remaining_write
          \/ builder'.capacity > builder.capacity]_vars

\* C11: the region of a constructed builder holds capacity + 1 cells and
\* no operation stores outside it: write_char_string_builder and the copy
\* loop of write_string_builder_ranged store only at indices below
\* capacity, space_left = capacity - idx is never negative, and
\* collect_string_builder_no_copy stores the terminator at an index
\* idx <= capacity.
C11_WritesInsideRegion ==
    [][/\ builder'.buf # "NULL" => heap'.size = builder'.capacity + 1
       /\ lastOp' \notin {"collect", "collect_failed"} => ~oob'
       /\ lastOp' = "write_char" => builder.idx < builder'.capacity
       /\ pc = "ranged" =>
            /\ builder.idx <= builder.capacity
            /\ builder'.idx <= builder'.capacity
       /\ lastOp' = "collect_no_copy" => builder.idx <= builder.capacity]_vars

====
